---- MODULE Spec2Model ----
(***************************************************************************)
(* Model of calculate() in src/calculator.py: the shunting-yard parser     *)
(* parse_expression and the postfix evaluator evaluate_rpn.                *)
(*                                                                         *)
(* A token is the string the tokenizer produced, kept as a sequence of     *)
(* one-character strings (<<"1", ".", "5">>, <<"(">>).  The for loop of    *)
(* parse_expression reads the token list from left to right; `tokens' is   *)
(* the part of the list read so far, the token read by one iteration is    *)
(* drawn from TokenAlphabet, and the loop may run out of tokens at any     *)
(* iteration.  Python floats are modelled as exact rationals <<n, d>> in   *)
(* lowest terms with d > 0 (rounding, infinities and NaN are outside the   *)
(* model; -0.0 and 0.0 are the one rational <<0, 1>>, and Python's         *)
(* `right == 0' is true of both).                                          *)
(*                                                                         *)
(* Two specifications share the actions.  Spec leaves the text open: it    *)
(* starts after tokenize with an unknown token list (given = FALSE).       *)
(* SpecText starts from a text `expr' drawn from Texts (given = TRUE),     *)
(* runs tokenize on it and reads exactly the tokens it produced.           *)
(* SpecCalls runs several calls, one after the other as the loop of main   *)
(* does and interleaved as two threads would run them.                     *)
(***************************************************************************)
EXTENDS Integers, Sequences, FiniteSets, TLC

VARIABLES
    other,      \* the locals of a second call of calculate that is not running
    calls,      \* number of calls of calculate started
    seen,       \* <<text, outcome>> of the calls that have returned or raised
    expr,       \* the text passed to calculate (when given)
    given,      \* TRUE when the text is fixed from the start, FALSE when the
                \* token list is left open
    unread,     \* when given: tokens of tokenize(expr) the for loop has not read
    tokens,     \* tokens read so far by `for token in tokens'
    exhausted,  \* TRUE once the for loop of parse_expression ran out of tokens
    stack,      \* parse_expression: operator stack
    output,     \* parse_expression: output list, later the rpn of evaluate_rpn
    after_exp,  \* parse_expression: an operand has just been completed
    ip,         \* evaluate_rpn: number of rpn entries already processed
    vstack,     \* evaluate_rpn: value stack
    pc,         \* "parse", "eval" or "done"
    result      \* outcome of calculate: a number or the error raised

vars == <<other, calls, seen, expr, given, unread, tokens, exhausted, stack, output, after_exp, ip, vstack, pc, result>>

\* Longest token list the for loop reads.
MaxTokens == 7

\* Longest text passed to calculate in SpecText.
MaxText == 4

\* Number of calls of calculate in SpecCalls.
MaxCalls == 3

(***************************************************************************)
(* Floats as rationals.                                                    *)
(***************************************************************************)
Abs(n) == IF n < 0 THEN -n ELSE n

RECURSIVE GCD(_, _)
GCD(a, b) == IF b = 0 THEN a ELSE GCD(b, a % b)

\* n/d in lowest terms, d # 0
Rat(n, d) ==
    LET g == GCD(Abs(n), Abs(d))
        s == IF d < 0 THEN -1 ELSE 1
    IN  <<(s * n) \div g, (s * d) \div g>>

Zero == <<0, 1>>

\* operator.add, operator.sub, operator.mul, operator.truediv, operator.neg
add(l, r) == Rat(l[1] * r[2] + r[1] * l[2], l[2] * r[2])
sub(l, r) == Rat(l[1] * r[2] - r[1] * l[2], l[2] * r[2])
mul(l, r) == Rat(l[1] * r[1], l[2] * r[2])
truediv(l, r) == Rat(l[1] * r[2], l[2] * r[1])
neg(x) == <<-x[1], x[2]>>

infix_operators(op, l, r) ==
    CASE op = "+" -> add(l, r)
      [] op = "-" -> sub(l, r)
      [] op = "*" -> mul(l, r)
      [] op = "/" -> truediv(l, r)

prefix_operators(op, x) == CASE op = "-" -> neg(x)

(***************************************************************************)
(* Tokens.                                                                 *)
(***************************************************************************)
Digits == {"0", "1", "2", "3", "4", "5", "6", "7", "8", "9"}

DigitValue(c) ==
    CASE c = "0" -> 0 [] c = "1" -> 1 [] c = "2" -> 2 [] c = "3" -> 3
      [] c = "4" -> 4 [] c = "5" -> 5 [] c = "6" -> 6 [] c = "7" -> 7
      [] c = "8" -> 8 [] c = "9" -> 9

RECURSIVE DigitsValue(_)
DigitsValue(s) ==
    IF s = <<>> THEN 0
    ELSE 10 * DigitsValue(SubSeq(s, 1, Len(s) - 1)) + DigitValue(s[Len(s)])

RECURSIVE Pow10(_)
Pow10(k) == IF k = 0 THEN 1 ELSE 10 * Pow10(k - 1)

\* float(token) of a token digits[.digits]
float(token) ==
    LET dots == {i \in 1..Len(token) : token[i] = "."}
    IN  IF dots = {}
        THEN Rat(DigitsValue(token), 1)
        ELSE LET p == CHOOSE i \in dots : TRUE
                 whole == SubSeq(token, 1, p - 1)
                 frac == SubSeq(token, p + 1, Len(token))
             IN  Rat(DigitsValue(whole) * Pow10(Len(frac)) + DigitsValue(frac),
                     Pow10(Len(frac)))

\* re.match(r'\d+(?:\.\d+)?', token): the pattern matches at the start of
\* the token exactly when the token starts with a digit
IsNumberToken(token) == Len(token) > 0 /\ token[1] \in Digits

\* token in '+-*/' for a one-character token
IsOperatorToken(token) == Len(token) = 1 /\ token[1] \in {"+", "-", "*", "/"}

NumeralTokens == {<<"0">>, <<"2">>, <<"3">>, <<"4">>}
SymbolTokens == {<<"+">>, <<"-">>, <<"*">>, <<"/">>, <<"(">>, <<")">>}
TokenAlphabet == NumeralTokens \cup SymbolTokens

(***************************************************************************)
(* Entries of the operator stack and of the output.                        *)
(***************************************************************************)
Number(v) == [kind |-> "Number", op |-> "", val |-> v]
InfixOp(op) == [kind |-> "InfixOp", op |-> op, val |-> Zero]
PrefixOp(op) == [kind |-> "PrefixOp", op |-> op, val |-> Zero]
Paren == [kind |-> "Paren", op |-> "", val |-> Zero]

infix_precedence(op) ==
    CASE op = "+" -> 1 [] op = "-" -> 1 [] op = "*" -> 2 [] op = "/" -> 2

prefix_precedence(op) == CASE op = "-" -> 3

Top(s) == s[Len(s)]
Pop(s) == SubSeq(s, 1, Len(s) - 1)

\* Outcomes of calculate.
NoResult == [kind |-> "none", val |-> Zero]
Value(v) == [kind |-> "Number", val |-> v]
Error(k) == [kind |-> k, val |-> Zero]

(***************************************************************************)
(* parse_expression.                                                       *)
(***************************************************************************)
\* `raise': calculate ends with the error, whatever the locals hold
Raise(kind) == pc' = "done" /\ result' = Error(kind)

\* the token the for loop reads in this iteration
Read(token) ==
    /\ pc = "parse"
    /\ given \/ Len(tokens) < MaxTokens
    /\ tokens' = Append(tokens, token)
    /\ unread' = IF given THEN Tail(unread) ELSE unread
    /\ UNCHANGED <<other, calls, seen, expr, given>>

\* the tokens the next iteration of the for loop can get
Offered ==
    IF given
    THEN (IF unread = <<>> THEN {} ELSE {Head(unread)})
    ELSE TokenAlphabet

\* PopToParen with the moved operators lost: output.append(stack_head) missing
RECURSIVE PopToParen_NoAppend(_, _)
PopToParen_NoAppend(st, out) ==
    IF st = <<>> \/ Top(st).kind = "Paren"
    THEN [stack |-> st, output |-> out]
    ELSE PopToParen_NoAppend(Pop(st), out)

\* PopToParen that moves the marker to the output as well
RECURSIVE PopToParen_AppendsParen(_, _)
PopToParen_AppendsParen(st, out) ==
    IF st = <<>> THEN [stack |-> st, output |-> out]
    ELSE IF Top(st).kind = "Paren"
    THEN [stack |-> st, output |-> Append(out, Top(st))]
    ELSE PopToParen_AppendsParen(Pop(st), Append(out, Top(st)))

\* while loop of the ')' branch: move entries to the output until the stack
\* is empty or its top is a Paren
RECURSIVE PopToParen(_, _)
PopToParen(st, out) ==
    IF st = <<>> \/ Top(st).kind = "Paren"
    THEN [stack |-> st, output |-> out]
    ELSE PopToParen(Pop(st), Append(out, Top(st)))

\* loop condition of the prefix branch
PrefixPops(stack_head) ==
    /\ stack_head.kind = "PrefixOp"
    /\ prefix_precedence("-") <= prefix_precedence(stack_head.op)

\* while loop of the prefix branch
RECURSIVE PopPrefix(_, _)
PopPrefix(st, out) ==
    IF st = <<>> \/ ~PrefixPops(Top(st))
    THEN [stack |-> st, output |-> out]
    ELSE PopPrefix(Pop(st), Append(out, Top(st)))

\* InfixPops with < for <=: equal precedence would associate to the right
InfixPops_Strict(stack_head, op) ==
    /\ stack_head.kind = "InfixOp"
    /\ infix_precedence(op) < infix_precedence(stack_head.op)

\* InfixPops with one merged precedence lookup: a pending PrefixOp is compared
\* with the incoming infix operator as well
InfixPops_Merged(stack_head, op) ==
    \/ /\ stack_head.kind = "InfixOp"
       /\ infix_precedence(op) <= infix_precedence(stack_head.op)
    \/ /\ stack_head.kind = "PrefixOp"
       /\ infix_precedence(op) <= prefix_precedence(stack_head.op)

\* loop condition of the infix branch
InfixPops(stack_head, op) ==
    /\ stack_head.kind = "InfixOp"
    /\ infix_precedence(op) <= infix_precedence(stack_head.op)

\* PopInfix that drops the operators it pops
RECURSIVE PopInfix_Drops(_, _, _)
PopInfix_Drops(st, out, op) ==
    IF st = <<>> \/ ~InfixPops(Top(st), op)
    THEN [stack |-> st, output |-> out]
    ELSE PopInfix_Drops(Pop(st), out, op)

\* while loop of the infix branch
RECURSIVE PopInfix(_, _, _)
PopInfix(st, out, op) ==
    IF st = <<>> \/ ~InfixPops(Top(st), op)
    THEN [stack |-> st, output |-> out]
    ELSE PopInfix(Pop(st), Append(out, Top(st)), op)

\* Drain without the isinstance(stack_head, Paren) test: a marker is dropped
RECURSIVE Drain_ThroughParen(_, _)
Drain_ThroughParen(st, out) ==
    IF st = <<>>
    THEN [stack |-> st, output |-> out]
    ELSE Drain_ThroughParen(Pop(st),
                            IF Top(st).kind = "Paren" THEN out ELSE Append(out, Top(st)))

\* while loop after the for loop: move every entry to the output, stop at a
\* Paren (the caller raises)
RECURSIVE Drain(_, _)
Drain(st, out) ==
    IF st = <<>> \/ Top(st).kind = "Paren"
    THEN [stack |-> st, output |-> out]
    ELSE Drain(Pop(st), Append(out, Top(st)))

\* IsPrefixMinus without the token test: any operator where an operand is
\* expected would be taken as a prefix minus
IsPrefixMinus_AnyOperator(token, after) == ~after

\* if token == '-' and not after_exp
IsPrefixMinus(token, after) == token = <<"-">> /\ ~after

\* if re.match(r'\d+(?:\.\d+)?', token)
ParseNumber ==
    \E token \in Offered :
        /\ Read(token)
        /\ IsNumberToken(token)
        /\ IF after_exp
           THEN /\ Raise("ConsecutiveExpressions")
                /\ UNCHANGED <<output, after_exp>>
           ELSE /\ output' = Append(output, Number(float(token)))
                /\ after_exp' = TRUE
                /\ UNCHANGED <<pc, result>>
        /\ UNCHANGED <<exhausted, stack, ip, vstack>>

\* elif token == '('
ParseLeftParen ==
    \E token \in Offered :
        /\ Read(token)
        /\ ~IsNumberToken(token)
        /\ token = <<"(">>
        /\ stack' = Append(stack, Paren)
        /\ after_exp' = FALSE
        /\ UNCHANGED <<exhausted, output, ip, vstack, pc, result>>

\* elif token == ')'
ParseRightParen ==
    \E token \in Offered :
        /\ Read(token)
        /\ ~IsNumberToken(token)
        /\ token = <<")">>
        /\ LET popped == PopToParen(stack, output)
           IN  /\ output' = popped.output
               /\ IF popped.stack # <<>> /\ Top(popped.stack).kind = "Paren"
                  THEN /\ stack' = Pop(popped.stack)
                       /\ after_exp' = TRUE
                       /\ UNCHANGED <<pc, result>>
                  ELSE /\ stack' = popped.stack
                       /\ Raise("UnmatchedParen")
                       /\ UNCHANGED after_exp
        /\ UNCHANGED <<exhausted, ip, vstack>>

\* elif token in '+-*/': if token == '-' and not after_exp
ParsePrefixMinus ==
    \E token \in Offered :
        /\ Read(token)
        /\ ~IsNumberToken(token)
        /\ token \notin {<<"(">>, <<")">>}
        /\ IsOperatorToken(token)
        /\ IsPrefixMinus(token, after_exp)
        /\ LET popped == PopPrefix(stack, output)
           IN  /\ output' = popped.output
               /\ stack' = Append(popped.stack, PrefixOp("-"))
        /\ after_exp' = FALSE
        /\ UNCHANGED <<exhausted, ip, vstack, pc, result>>

\* elif token in '+-*/': else
ParseInfixOp ==
    \E token \in Offered :
        /\ Read(token)
        /\ ~IsNumberToken(token)
        /\ token \notin {<<"(">>, <<")">>}
        /\ IsOperatorToken(token)
        /\ ~IsPrefixMinus(token, after_exp)
        /\ IF ~after_exp
           THEN /\ Raise("OperatorNeedsOperand")
                /\ UNCHANGED <<stack, output, after_exp>>
           ELSE /\ LET popped == PopInfix(stack, output, token[1])
                   IN  /\ output' = popped.output
                       /\ stack' = Append(popped.stack, InfixOp(token[1]))
                /\ after_exp' = FALSE
                /\ UNCHANGED <<pc, result>>
        /\ UNCHANGED <<exhausted, ip, vstack>>

\* AfterLoop with the two checks in the other order: the while loop first
AfterLoop_DrainFirst(after, st, out) ==
    LET drained == Drain(st, out)
    IN  IF drained.stack # <<>>
        THEN [error |-> "UnmatchedParen", stack |-> drained.stack,
              output |-> drained.output]
        ELSE [error |-> IF ~after THEN "IncompleteExpression" ELSE "",
              stack |-> drained.stack, output |-> drained.output]

\* after the for loop: `if not after_exp: raise', then the final while loop,
\* which raises at a Paren; error is "" when output is returned
AfterLoop(after, st, out) ==
    IF ~after
    THEN [error |-> "IncompleteExpression", stack |-> st, output |-> out]
    ELSE LET drained == Drain(st, out)
         IN  [error |-> IF drained.stack # <<>> THEN "UnmatchedParen" ELSE "",
              stack |-> drained.stack, output |-> drained.output]

\* the for loop is over: the checks and the final while loop, return output
ParseEnd ==
    /\ pc = "parse"
    /\ given => unread = <<>>
    /\ exhausted' = TRUE
    /\ LET end == AfterLoop(after_exp, stack, output)
       IN  /\ stack' = end.stack
           /\ output' = end.output
           /\ IF end.error # ""
              THEN Raise(end.error)
              ELSE pc' = "eval" /\ UNCHANGED result
    /\ UNCHANGED <<other, calls, seen, expr, given, unread, tokens, after_exp, ip, vstack>>

(***************************************************************************)
(* evaluate_rpn.  An IndexError of stack.pop() or stack[0] is caught by    *)
(* `except Exception' in calculate and raised again as a ValueError, here  *)
(* the error kind "EvaluationError".                                       *)
(***************************************************************************)
Fetch(kind) ==
    /\ pc = "eval"
    /\ ip < Len(output)
    /\ output[ip + 1].kind = kind

\* if isinstance(token, float)
EvalNumber ==
    /\ Fetch("Number")
    /\ vstack' = Append(vstack, output[ip + 1].val)
    /\ ip' = ip + 1
    /\ UNCHANGED <<other, calls, seen, expr, given, unread, tokens, exhausted, stack, output, after_exp, pc, result>>

\* elif isinstance(token, PrefixOp)
EvalPrefixOp ==
    /\ Fetch("PrefixOp")
    /\ IF vstack = <<>>
       THEN /\ Raise("EvaluationError")
            /\ UNCHANGED <<vstack, ip>>
       ELSE /\ vstack' = Append(Pop(vstack),
                                prefix_operators(output[ip + 1].op, Top(vstack)))
            /\ ip' = ip + 1
            /\ UNCHANGED <<pc, result>>
    /\ UNCHANGED <<other, calls, seen, expr, given, unread, tokens, exhausted, stack, output, after_exp>>

\* if token.op == '/' and right == 0
DividesByZero(op, right) == op = "/" /\ right[1] = 0

\* elif isinstance(token, InfixOp)
EvalInfixOp ==
    /\ Fetch("InfixOp")
    /\ IF vstack = <<>>
       THEN /\ Raise("EvaluationError")
            /\ UNCHANGED <<vstack, ip>>
       ELSE IF Len(vstack) = 1
       THEN /\ Raise("EvaluationError")
            /\ vstack' = Pop(vstack)
            /\ UNCHANGED ip
       ELSE LET right == Top(vstack)
                left == Top(Pop(vstack))
                op == output[ip + 1].op
            IN  IF DividesByZero(op, right)
                THEN /\ Raise("DivisionByZero")
                     /\ vstack' = Pop(Pop(vstack))
                     /\ UNCHANGED ip
                ELSE /\ vstack' = Append(Pop(Pop(vstack)),
                                         infix_operators(op, left, right))
                     /\ ip' = ip + 1
                     /\ UNCHANGED <<pc, result>>
    /\ UNCHANGED <<other, calls, seen, expr, given, unread, tokens, exhausted, stack, output, after_exp>>

\* EvalReturn that starts the instruction list again: a non-empty rpn is
\* processed over and over
EvalReturn_Restart ==
    /\ pc = "eval"
    /\ ip = Len(output)
    /\ IF output = <<>>
       THEN pc' = "done" /\ result' = Error("EvaluationError") /\ UNCHANGED <<ip, vstack>>
       ELSE ip' = 0 /\ vstack' = <<>> /\ UNCHANGED <<pc, result>>
    /\ UNCHANGED <<other, calls, seen, expr, given, unread, tokens, exhausted, stack, output, after_exp>>

\* return stack[0]
EvalReturn ==
    /\ pc = "eval"
    /\ ip = Len(output)
    /\ pc' = "done"
    /\ result' = IF vstack = <<>> THEN Error("EvaluationError") ELSE Value(vstack[1])
    /\ UNCHANGED <<other, calls, seen, expr, given, unread, tokens, exhausted, stack, output, after_exp, ip, vstack>>

\* no call of calculate in progress
Idle ==
    [expr |-> <<>>, unread |-> <<>>, tokens |-> <<>>, exhausted |-> FALSE,
     stack |-> <<>>, output |-> <<>>, after_exp |-> FALSE, ip |-> 0,
     vstack |-> <<>>, pc |-> "idle", result |-> NoResult]

Init ==
    /\ other = Idle
    /\ calls = 1
    /\ seen = {}
    /\ expr = <<>>
    /\ given = FALSE
    /\ unread = <<>>
    /\ tokens = <<>>
    /\ exhausted = FALSE
    /\ stack = <<>>
    /\ output = <<>>
    /\ after_exp = FALSE
    /\ ip = 0
    /\ vstack = <<>>
    /\ pc = "parse"
    /\ result = NoResult

Next ==
    \/ ParseNumber
    \/ ParseLeftParen
    \/ ParseRightParen
    \/ ParsePrefixMinus
    \/ ParseInfixOp
    \/ ParseEnd
    \/ EvalNumber
    \/ EvalPrefixOp
    \/ EvalInfixOp
    \/ EvalReturn

Spec == Init /\ [][Next]_vars

(***************************************************************************)
(* tokenize, and calculate on a given text.                                *)
(***************************************************************************)
\* characters str.split() splits on (those that occur in the texts)
Whitespace == {" ", "\t", "\n"}

TextAlphabet == {"0", "2", ".", "+", "-", "/", "(", ")", " ", "$"}

\* the texts of SpecText: every string over TextAlphabet up to MaxText
Texts == UNION {[1..n -> TextAlphabet] : n \in 0..MaxText}

\* the characters of a text
Chars == TextAlphabet \cup Whitespace

\* expr.split(), from left to right: part is the fragment being read
SplitRest[e \in Seq(Chars), part \in Seq(Chars)] ==
    LET done == IF part = <<>> THEN <<>> ELSE <<part>>
    IN  IF e = <<>> THEN done
        ELSE IF Head(e) \in Whitespace THEN done \o SplitRest[Tail(e), <<>>]
        ELSE SplitRest[Tail(e), Append(part, Head(e))]

\* split without splitting: the text is taken as one fragment
split_Whole(e) == IF e = <<>> THEN <<>> ELSE <<e>>

\* expr.split(): the maximal runs of non-whitespace characters
split(e) == SplitRest[e, <<>>]

\* number of digits of part from position i on
DigitRun[part \in Seq(Chars), i \in Nat] ==
    IF i <= Len(part) /\ part[i] \in Digits THEN 1 + DigitRun[part, i + 1] ELSE 0

\* match.end() of re.match(r'\d+(?:\.\d+)?|[+\-*/()]', part), 0 without a match
MatchEnd(part) ==
    IF part[1] \in Digits
    THEN LET n == DigitRun[part, 1]
             m == IF n + 1 <= Len(part) /\ part[n + 1] = "."
                  THEN DigitRun[part, n + 2] ELSE 0
         IN  IF m > 0 THEN n + 1 + m ELSE n
    ELSE IF part[1] \in {"+", "-", "*", "/", "(", ")"} THEN 1
    ELSE 0

\* `while part:' of tokenize; ok is FALSE when it raises
TokenizePart[part \in Seq(Chars), toks \in Seq(Seq(Chars))] ==
    IF part = <<>> THEN [ok |-> TRUE, tokens |-> toks]
    ELSE LET end == MatchEnd(part)
         IN  IF end = 0 THEN [ok |-> FALSE, tokens |-> toks]
             ELSE TokenizePart[SubSeq(part, end + 1, Len(part)),
                               Append(toks, SubSeq(part, 1, end))]

\* `for part in parts:' of tokenize
TokenizeParts[parts \in Seq(Seq(Chars)), toks \in Seq(Seq(Chars))] ==
    IF parts = <<>> THEN [ok |-> TRUE, tokens |-> toks]
    ELSE LET t == TokenizePart[Head(parts), toks]
         IN  IF t.ok THEN TokenizeParts[Tail(parts), t.tokens] ELSE t

\* tokenize that leaves the loop at an unmatched fragment and does not raise
tokenize_Lenient(e) == [ok |-> TRUE, tokens |-> TokenizeParts[split(e), <<>>].tokens]

tokenize(e) == TokenizeParts[split(e), <<>>]

\* tokens = tokenize(expr), first statement of parse_expression
Tokenize ==
    /\ pc = "tokenize"
    /\ LET t == tokenize(expr)
       IN  IF t.ok
           THEN /\ unread' = t.tokens
                /\ pc' = "parse"
                /\ UNCHANGED result
           ELSE /\ Raise("InvalidToken")
                /\ UNCHANGED unread
    /\ UNCHANGED <<other, calls, seen, expr, given, tokens, exhausted, stack, output, after_exp, ip, vstack>>

\* StartCall with the operator stack kept from the call before, as a list
\* created once outside calculate would be
StartCall_KeepsStack(e) ==
    /\ expr' = e
    /\ unread' = <<>>
    /\ tokens' = <<>>
    /\ exhausted' = FALSE
    /\ stack' = stack
    /\ output' = <<>>
    /\ after_exp' = FALSE
    /\ ip' = 0
    /\ vstack' = <<>>
    /\ pc' = "tokenize"
    /\ result' = NoResult
    /\ calls' = calls + 1
    /\ seen' = IF pc = "done" THEN seen \cup {<<expr, result>>} ELSE seen
    /\ UNCHANGED <<given, other>>

\* calculate(e) is entered: every local of calculate, parse_expression and
\* evaluate_rpn is created anew; the outcome of the call before is kept in
\* seen
StartCall(e) ==
    /\ expr' = e
    /\ unread' = <<>>
    /\ tokens' = <<>>
    /\ exhausted' = FALSE
    /\ stack' = <<>>
    /\ output' = <<>>
    /\ after_exp' = FALSE
    /\ ip' = 0
    /\ vstack' = <<>>
    /\ pc' = "tokenize"
    /\ result' = NoResult
    /\ calls' = calls + 1
    /\ seen' = IF pc = "done" THEN seen \cup {<<expr, result>>} ELSE seen
    /\ UNCHANGED <<given, other>>

\* calculate(user_input) with a text of Texts
Call ==
    /\ pc = "idle"
    /\ \E e \in Texts : StartCall(e)

\* texts of the calls of SpecCalls: a sum, a division by zero, an unclosed
\* and an unopened parenthesis, a unary minus, an invalid character
CallTexts ==
    {<<"2", "+", "2">>, <<"2", "/", "0">>, <<"(", "2">>, <<"2", ")">>,
     <<"-", "2">>, <<"2", "$">>}

\* the loop of main: calculate is called again after it returned or raised
CallAgain ==
    /\ pc \in {"idle", "done"}
    /\ calls < MaxCalls
    /\ \E e \in CallTexts : StartCall(e)

\* the running call is suspended and the other one goes on; each call has
\* its own locals
Switch ==
    /\ other' = [expr |-> expr, unread |-> unread, tokens |-> tokens,
                 exhausted |-> exhausted, stack |-> stack, output |-> output,
                 after_exp |-> after_exp, ip |-> ip, vstack |-> vstack,
                 pc |-> pc, result |-> result]
    /\ expr' = other.expr
    /\ unread' = other.unread
    /\ tokens' = other.tokens
    /\ exhausted' = other.exhausted
    /\ stack' = other.stack
    /\ output' = other.output
    /\ after_exp' = other.after_exp
    /\ ip' = other.ip
    /\ vstack' = other.vstack
    /\ pc' = other.pc
    /\ result' = other.result
    /\ UNCHANGED <<given, calls, seen>>

InitText ==
    /\ other = Idle
    /\ calls = 0
    /\ seen = {}
    /\ expr = <<>>
    /\ given = TRUE
    /\ unread = <<>>
    /\ tokens = <<>>
    /\ exhausted = FALSE
    /\ stack = <<>>
    /\ output = <<>>
    /\ after_exp = FALSE
    /\ ip = 0
    /\ vstack = <<>>
    /\ pc = "idle"
    /\ result = NoResult

NextText ==
    \/ Call
    \/ Tokenize
    \/ Next

SpecText == InitText /\ [][NextText]_vars

NextCalls ==
    \/ CallAgain
    \/ Switch
    \/ Tokenize
    \/ Next

SpecCalls == InitText /\ [][NextCalls]_vars

\* a call that was entered keeps running: the interpreter does not stop
\* between two statements
FairSpecText == SpecText /\ WF_vars(Tokenize \/ Next)

TypeOK ==
    /\ pc \in {"idle", "tokenize", "parse", "eval", "done"}
    /\ given \in BOOLEAN
    /\ exhausted \in BOOLEAN
    /\ after_exp \in BOOLEAN
    /\ Len(tokens) <= MaxTokens
    /\ ip \in 0..Len(output)

(***************************************************************************)
(* The grammar of well-formed token lists and their value by the standard  *)
(* rules, stated without an operator stack.                                *)
(***************************************************************************)
\* expr ::= numeral | '-' expr | '(' expr ')' | expr op expr
RECURSIVE WellFormed(_)
WellFormed(s) ==
    LET n == Len(s)
    IN  \/ n = 1 /\ IsNumberToken(s[1])
        \/ n >= 2 /\ s[1] = <<"-">> /\ WellFormed(SubSeq(s, 2, n))
        \/ n >= 3 /\ s[1] = <<"(">> /\ s[n] = <<")">> /\ WellFormed(SubSeq(s, 2, n - 1))
        \/ \E k \in 2..(n - 1) :
               /\ IsOperatorToken(s[k])
               /\ WellFormed(SubSeq(s, 1, k - 1))
               /\ WellFormed(SubSeq(s, k + 1, n))

\* s[k] is an operator token standing after an operand: an infix operator
BinaryAt(s, k) ==
    /\ k > 1
    /\ IsOperatorToken(s[k])
    /\ (IsNumberToken(s[k - 1]) \/ s[k - 1] = <<")">>)

\* s[k] is a minus standing where an operand is expected: a unary minus
UnaryAt(s, k) == s[k] = <<"-">> /\ ~BinaryAt(s, k)

\* number of parentheses open before position k
DepthAt(s, k) ==
    Cardinality({i \in 1..(k - 1) : s[i] = <<"(">>})
        - Cardinality({i \in 1..(k - 1) : s[i] = <<")">>})

\* every ')' closes an earlier '(' and every '(' is closed
Balanced(s) ==
    /\ \A k \in 1..Len(s) : DepthAt(s, k + 1) >= 0
    /\ DepthAt(s, Len(s) + 1) = 0

\* infix operators of the given symbols outside every parenthesis
TopLevelOps(s, symbols) ==
    {k \in 1..Len(s) : BinaryAt(s, k) /\ DepthAt(s, k) = 0 /\ s[k][1] \in symbols}

SetMax(S) == CHOOSE x \in S : \A y \in S : y <= x

Malformed == [kind |-> "Malformed", val |-> Zero]

Apply(op, l, r) ==
    IF l.kind = "Malformed" \/ r.kind = "Malformed" THEN Malformed
    ELSE IF l.kind = "DivisionByZero" \/ r.kind = "DivisionByZero"
    THEN Error("DivisionByZero")
    ELSE IF op = "/" /\ r.val = Zero THEN Error("DivisionByZero")
    ELSE Value(CASE op = "+" -> add(l.val, r.val)
                 [] op = "-" -> sub(l.val, r.val)
                 [] op = "*" -> mul(l.val, r.val)
                 [] op = "/" -> truediv(l.val, r.val))

Negate(x) == IF x.kind = "Number" THEN Value(neg(x.val)) ELSE x

\* The value by standard precedence: the last + or - outside parentheses
\* is applied last; without one, the last * or / outside parentheses; without
\* one, a leading unary minus negates the rest; a parenthesized group has the
\* value of its inside.
RECURSIVE StandardValue(_)
StandardValue(s) ==
    LET n == Len(s)
        low == TopLevelOps(s, {"+", "-"})
        high == TopLevelOps(s, {"*", "/"})
        k == IF low # {} THEN SetMax(low)
             ELSE IF high # {} THEN SetMax(high) ELSE 0
    IN  IF n = 0 THEN Malformed
        ELSE IF k # 0
        THEN Apply(s[k][1], StandardValue(SubSeq(s, 1, k - 1)),
                            StandardValue(SubSeq(s, k + 1, n)))
        ELSE IF s[1] = <<"-">> THEN Negate(StandardValue(SubSeq(s, 2, n)))
        ELSE IF s[1] = <<"(">> /\ s[n] = <<")">> THEN StandardValue(SubSeq(s, 2, n - 1))
        ELSE IF n = 1 /\ IsNumberToken(s[1]) THEN Value(float(s[1]))
        ELSE Malformed

\* numerals and infix operators only: numeral (op numeral)*
InfixOnly(s) ==
    /\ Len(s) % 2 = 1
    /\ \A i \in 1..Len(s) :
           IF i % 2 = 1 THEN IsNumberToken(s[i]) ELSE IsOperatorToken(s[i])

(***************************************************************************)
(* Claims.                                                                 *)
(***************************************************************************)
Tok(c) == <<c>>

\* C1: an input of numerals and infix operators only (no parentheses, no
\* unary minus) is read to its end and calculate returns its value by
\* standard precedence: * and / before + and -, equal precedence left to
\* right (or DivisionByZero when that evaluation divides by zero).
C1_StandardPrecedence ==
    (pc = "done" /\ InfixOnly(tokens))
        => (exhausted /\ result = StandardValue(tokens))

\* 4 - 3 - 2 = (4 - 3) - 2 = -1
C1_Witness ==
    /\ pc = "done"
    /\ tokens = <<Tok("4"), Tok("-"), Tok("3"), Tok("-"), Tok("2")>>
    /\ result = Value(<<-1, 1>>)

\* C5: a well-formed input of numerals, infix operators and balanced
\* parentheses without unary minus is read to its end and calculate returns
\* the value in which every parenthesized group is evaluated as a unit.
C5_Parenthesization ==
    (/\ pc = "done"
     /\ \A k \in 1..Len(tokens) : ~UnaryAt(tokens, k)
     /\ StandardValue(tokens).kind # "Malformed")
        => (exhausted /\ result = StandardValue(tokens))

\* (2 + 3) * 4 = 20
C5_Witness ==
    /\ pc = "done"
    /\ tokens = <<Tok("("), Tok("2"), Tok("+"), Tok("3"), Tok(")"), Tok("*"), Tok("4")>>
    /\ result = Value(<<20, 1>>)

\* the operator stack holds a parenthesis marker
HasMarker(st) == \E i \in 1..Len(st) : st[i].kind = "Paren"

\* C9: a ')' read while the operator stack holds no marker raises
\* UnmatchedParen at that token; the end of the input with after_exp true and
\* a marker on the stack raises UnmatchedParen; parse_expression returns only
\* for token lists with balanced parentheses.
C9_ParenthesesBalance ==
    [][/\ (/\ pc = "parse"
           /\ tokens' = Append(tokens, Tok(")"))
           /\ ~HasMarker(stack))
              => (pc' = "done" /\ result' = Error("UnmatchedParen"))
       /\ (pc = "parse" /\ exhausted' /\ after_exp /\ HasMarker(stack))
              => (pc' = "done" /\ result' = Error("UnmatchedParen"))
       /\ (pc = "parse" /\ pc' = "eval") => Balanced(tokens')]_vars

\* ( 2 + 3 with the input over
C9_Witness ==
    /\ pc = "done"
    /\ exhausted
    /\ tokens = <<Tok("("), Tok("2"), Tok("+"), Tok("3")>>
    /\ result = Error("UnmatchedParen")

\* C10: when the input ends, after_exp is false exactly when the token list
\* is empty or ends in an operator or '(', and then calculate raises
\* IncompleteExpression, also when a marker is still on the stack.
C10_IncompleteExpression ==
    exhausted =>
        /\ ~after_exp <=> (\/ tokens = <<>>
                           \/ IsOperatorToken(Top(tokens))
                           \/ Top(tokens) = Tok("("))
        /\ ~after_exp => (pc = "done" /\ result = Error("IncompleteExpression"))

\* ( 2 + with the input over
C10_Witness ==
    /\ pc = "done"
    /\ exhausted
    /\ tokens = <<Tok("("), Tok("2"), Tok("+")>>
    /\ HasMarker(stack)
    /\ result = Error("IncompleteExpression")

\* position of the last token of the operand that starts at position i
\* (a numeral, a parenthesized group, or a unary minus and its operand);
\* 0 when no operand starts there
RECURSIVE OperandEnd(_, _)
OperandEnd(s, i) ==
    IF i > Len(s) THEN 0
    ELSE IF IsNumberToken(s[i]) THEN i
    ELSE IF s[i] = <<"-">> THEN OperandEnd(s, i + 1)
    ELSE IF s[i] = <<"(">>
    THEN LET closes == {j \in (i + 1)..Len(s) :
                            s[j] = <<")">> /\ DepthAt(s, j + 1) = DepthAt(s, i)}
         IN  IF closes = {} THEN 0 ELSE CHOOSE j \in closes : \A m \in closes : j <= m
    ELSE 0

\* a unary minus whose operand is followed by an infix operator
UnaryBeforeInfix(s) ==
    \E k \in 1..Len(s) :
        /\ UnaryAt(s, k)
        /\ LET e == OperandEnd(s, k + 1)
           IN  e # 0 /\ e < Len(s) /\ IsOperatorToken(s[e + 1])

\* no unary minus directly follows another one
NoRepeatedUnary(s) ==
    \A k \in 1..(Len(s) - 1) : ~(UnaryAt(s, k) /\ UnaryAt(s, k + 1))

\* C2: a well-formed input in which a unary minus stands before an operand
\* that is followed by an infix operator yields the value in which the minus
\* negates only that operand: (-a) + b, (-a) * b, (a * (-b)) + c.  (Inputs
\* with a repeated unary minus are the subject of C3 and left out here.)
C2_UnaryBindsTighter ==
    (/\ pc = "done"
     /\ UnaryBeforeInfix(tokens)
     /\ NoRepeatedUnary(tokens)
     /\ WellFormed(tokens))
        => (exhausted /\ result = StandardValue(tokens))

\* n >= 1 unary minus signs and then a numeral
MinusChain(s) ==
    /\ Len(s) >= 2
    /\ \A i \in 1..(Len(s) - 1) : s[i] = <<"-">>
    /\ IsNumberToken(s[Len(s)])

\* C3: n >= 1 unary minus signs before a numeral x yield x for even n and -x
\* for odd n, and never an error.
C3_RepeatedUnaryMinus ==
    (pc = "done" /\ MinusChain(tokens))
        => /\ exhausted
           /\ result = Value(IF (Len(tokens) - 1) % 2 = 0
                             THEN float(Top(tokens))
                             ELSE neg(float(Top(tokens))))

\* C4: the RPN parse_expression returns never pops from an empty value stack
\* and leaves exactly one value when evaluate_rpn returns.
C4_RpnReducesToOneValue ==
    /\ result.kind # "EvaluationError"
    /\ (pc = "done" /\ result.kind = "Number") => Len(vstack) = 1

\* C6: calculate returns a number only for a well-formed expression of the
\* grammar; every other token list ends in an error.
C6_MalformedRejected ==
    (pc = "done" /\ result.kind = "Number") => WellFormed(tokens)

\* C7: an infix / instruction whose right operand (the value popped first)
\* is zero ends calculate with DivisionByZero and pushes nothing;
\* DivisionByZero is raised in no other step; every other infix instruction
\* that completes pushes left op right.
C7_DivisionByZero ==
    [][LET isInfix == pc = "eval" /\ ip < Len(output) /\ output[ip + 1].kind = "InfixOp"
           byZero == /\ isInfix
                     /\ output[ip + 1].op = "/"
                     /\ vstack # <<>>
                     /\ Top(vstack) = Zero
       IN  /\ byZero => /\ pc' = "done"
                        /\ result' = Error("DivisionByZero")
                        /\ Len(vstack') < Len(vstack)
           /\ (result.kind # "DivisionByZero" /\ result'.kind = "DivisionByZero")
                  => byZero
           /\ (isInfix /\ ~byZero /\ pc' = "eval")
                  => /\ Len(vstack) >= 2
                     /\ vstack' = Append(Pop(Pop(vstack)),
                                         Apply(output[ip + 1].op,
                                               Value(Top(Pop(vstack))),
                                               Value(Top(vstack))).val)]_vars

\* C8: a numeral or '(' read directly after a numeral or ')' raises
\* ConsecutiveExpressions.
C8_ConsecutiveExpressions ==
    LET n == Len(tokens)
    IN  (/\ n >= 2
         /\ (IsNumberToken(tokens[n]) \/ tokens[n] = Tok("("))
         /\ (IsNumberToken(tokens[n - 1]) \/ tokens[n - 1] = Tok(")")))
            => (pc = "done" /\ result = Error("ConsecutiveExpressions"))

\* C11: +, * or / read while after_exp is false raises OperatorNeedsOperand;
\* a - read there raises nothing and is pushed as a prefix minus.
C11_OperatorNeedsOperand ==
    [][(pc = "parse" /\ ~after_exp /\ Len(tokens') = Len(tokens) + 1)
          => /\ Top(tokens') \in {Tok("+"), Tok("*"), Tok("/")}
                  => (pc' = "done" /\ result' = Error("OperatorNeedsOperand"))
             /\ Top(tokens') = Tok("-")
                  => /\ pc' = "parse"
                     /\ result' = NoResult
                     /\ stack' # <<>>
                     /\ Top(stack') = PrefixOp("-")
                     /\ ~after_exp']_vars

\* 2 + * : the * stands after an operator
C11_Witness ==
    /\ pc = "done"
    /\ tokens = <<Tok("2"), Tok("+"), Tok("*")>>
    /\ result = Error("OperatorNeedsOperand")

\* C16: evaluate_rpn returns a number only when the value stack holds
\* exactly one value after the last instruction.
C16_ExactlyOneValue ==
    (pc = "done" /\ result.kind = "Number") => Len(vstack) = 1

\* the k topmost entries of st, topmost first
RECURSIVE TopDown(_, _)
TopDown(st, k) ==
    IF k = 0 THEN <<>> ELSE <<Top(st)>> \o TopDown(Pop(st), k - 1)

\* C17: an incoming infix operator moves from the stack top to the output
\* only InfixOp entries of precedence >= its own and stops at the first
\* other entry, PrefixOp and marker included; an incoming prefix minus moves
\* only PrefixOp entries.
C17_KindSpecificPops ==
    [][(/\ pc = "parse" /\ pc' = "parse"
        /\ Len(tokens') = Len(tokens) + 1
        /\ IsOperatorToken(Top(tokens')))
          => LET token == Top(tokens')
                 n == Len(output') - Len(output)
                 moved == SubSeq(output', Len(output) + 1, Len(output'))
                 rest == SubSeq(stack, 1, Len(stack) - n)
                 goes(e) == IF after_exp
                            THEN /\ e.kind = "InfixOp"
                                 /\ (e.op \in {"*", "/"} \/ token[1] \in {"+", "-"})
                            ELSE e.kind = "PrefixOp"
             IN  /\ n >= 0 /\ n <= Len(stack)
                 /\ moved = TopDown(stack, n)
                 /\ \A i \in 1..n : goes(moved[i])
                 /\ rest = <<>> \/ ~goes(Top(rest))
                 /\ stack' = Append(rest, IF after_exp THEN InfixOp(token[1])
                                          ELSE PrefixOp("-"))]_vars

\* - 3 + : the pending prefix minus stays under the incoming +
C17_Witness ==
    /\ pc = "parse"
    /\ tokens = <<Tok("-"), Tok("3"), Tok("+")>>
    /\ stack = <<PrefixOp("-"), InfixOp("+")>>
    /\ output = <<Number(<<3, 1>>)>>

\* C18: the output never holds a parenthesis marker, in no parser state and
\* in no returned RPN.
C18_NoParenInOutput ==
    \A i \in 1..Len(output) : output[i].kind \in {"Number", "InfixOp", "PrefixOp"}

\* ( 2 + 3 ) returned as 2 3 +
C18_Witness ==
    /\ pc = "eval"
    /\ tokens = <<Tok("("), Tok("2"), Tok("+"), Tok("3"), Tok(")")>>
    /\ output = <<Number(<<2, 1>>), Number(<<3, 1>>), InfixOp("+")>>

\* the numeral tokens of s, in order
RECURSIVE NumeralsOf(_)
NumeralsOf(s) ==
    IF s = <<>> THEN <<>>
    ELSE (IF IsNumberToken(Head(s)) THEN <<Head(s)>> ELSE <<>>) \o NumeralsOf(Tail(s))

\* the Number entries of an output list, in order
RECURSIVE NumbersOf(_)
NumbersOf(out) ==
    IF out = <<>> THEN <<>>
    ELSE (IF Head(out).kind = "Number" THEN <<Head(out)>> ELSE <<>>) \o NumbersOf(Tail(out))

\* C19: the RPN parse_expression returns holds the numerals of the input in
\* input order, one InfixOp per infix operator token of each symbol, one
\* PrefixOp per prefix minus token, and nothing else.
C19_RpnIsRearrangement ==
    pc = "eval" =>
        LET numerals == NumeralsOf(tokens)
            numbers == NumbersOf(output)
        IN  /\ Len(numbers) = Len(numerals)
            /\ \A i \in 1..Len(numbers) : numbers[i] = Number(float(numerals[i]))
            /\ \A c \in {"+", "-", "*", "/"} :
                   Cardinality({i \in 1..Len(output) : output[i] = InfixOp(c)})
                     = Cardinality({k \in 1..Len(tokens) :
                                        BinaryAt(tokens, k) /\ tokens[k] = Tok(c)})
            /\ Cardinality({i \in 1..Len(output) : output[i].kind = "PrefixOp"})
                 = Cardinality({k \in 1..Len(tokens) : UnaryAt(tokens, k)})
            /\ \A i \in 1..Len(output) :
                   output[i].kind = "PrefixOp" => output[i] = PrefixOp("-")
            /\ C18_NoParenInOutput

\* 2 * - 3 + 4 returned as 2 3 4 + neg *
C19_Witness ==
    /\ pc = "eval"
    /\ tokens = <<Tok("2"), Tok("*"), Tok("-"), Tok("3"), Tok("+"), Tok("4")>>
    /\ output = <<Number(<<2, 1>>), Number(<<3, 1>>), Number(<<4, 1>>),
                  InfixOp("+"), PrefixOp("-"), InfixOp("*")>>

\* C20: while parse_expression runs, the markers on the stack are as many as
\* the '(' read minus the ')' read, and of two InfixOp entries next to each
\* other on the stack the upper one has the higher precedence.
C20_StackShape ==
    pc = "parse" =>
        /\ Cardinality({i \in 1..Len(stack) : stack[i].kind = "Paren"})
             = DepthAt(tokens, Len(tokens) + 1)
        /\ \A i \in 1..(Len(stack) - 1) :
               (stack[i].kind = "InfixOp" /\ stack[i + 1].kind = "InfixOp")
                   => (stack[i].op \in {"+", "-"} /\ stack[i + 1].op \in {"*", "/"})

\* ( 2 + 3 * : one marker, + under *
C20_Witness ==
    /\ pc = "parse"
    /\ tokens = <<Tok("("), Tok("2"), Tok("+"), Tok("3"), Tok("*")>>
    /\ stack = <<Paren, InfixOp("+"), InfixOp("*")>>

\* characters tokenize accepts
Accepted == Digits \cup {".", "+", "-", "*", "/", "(", ")"} \cup Whitespace

\* the text holds a character outside the accepted set, or a '.' that does
\* not stand between two digits (as in `1.' or `.5')
BadText(e) ==
    \E i \in 1..Len(e) :
        \/ e[i] \notin Accepted
        \/ /\ e[i] = "."
           /\ ~(i > 1 /\ i < Len(e) /\ e[i - 1] \in Digits /\ e[i + 1] \in Digits)

\* C12: the stages run in order.  A text with an unaccepted character or a
\* malformed numeral anywhere ends in InvalidToken with no token parsed; a
\* token is parsed only once the whole text is tokenized; an RPN instruction
\* is evaluated, and an evaluation outcome reached, only once every token has
\* been parsed without error.
C12_StagesInOrder ==
    /\ (pc \notin {"idle", "tokenize"} /\ BadText(expr))
          => (pc = "done" /\ result = Error("InvalidToken") /\ tokens = <<>>)
    /\ (tokens # <<>> \/ pc \in {"parse", "eval"})
          => (tokenize(expr).ok /\ tokens \o unread = tokenize(expr).tokens)
    /\ (\/ pc = "eval" \/ ip > 0 \/ vstack # <<>>
        \/ result.kind \in {"Number", "DivisionByZero", "EvaluationError"})
          => (exhausted /\ unread = <<>> /\ tokens = tokenize(expr).tokens)
    /\ (pc = "done" /\ ~exhausted /\ result.kind # "InvalidToken")
          => result.kind \in {"ConsecutiveExpressions", "UnmatchedParen",
                              "OperatorNeedsOperand"}

\* "2 2$": two operands in a row, then a bad character
C12_Witness ==
    /\ pc = "done"
    /\ expr = <<"2", " ", "2", "$">>
    /\ result = Error("InvalidToken")

\* position p of e (0 = before the first character) lies inside a numeral
InsideNumeral(e, p) ==
    /\ p >= 1 /\ p < Len(e)
    /\ e[p] \in Digits \cup {"."}
    /\ e[p + 1] \in Digits \cup {"."}

\* e with the character w inserted after position p
Inserted(e, p, w) == SubSeq(e, 1, p) \o <<w>> \o SubSeq(e, p + 1, Len(e))

\* C14: for a text that tokenizes, a whitespace character added at the
\* start, at the end or between two tokens leaves the token list of tokenize
\* as it is, and one added inside a numeral changes it.
C14_WhitespaceInsensitive ==
    (pc \notin {"idle", "tokenize"} /\ result.kind # "InvalidToken")
        => \A p \in 0..Len(expr) : \A w \in Whitespace :
               (tokenize(Inserted(expr, p, w)) = [ok |-> TRUE, tokens |-> tokens \o unread])
                   <=> ~InsideNumeral(expr, p)

\* "2 +2" gives the tokens of "2+2" and the result 4
C14_Witness ==
    /\ pc = "done"
    /\ expr = <<"2", " ", "+", "2">>
    /\ tokens = <<Tok("2"), Tok("+"), Tok("2")>>
    /\ result = Value(<<4, 1>>)

\* every token takes at least one character, every token read adds at most
\* one entry to stack and output together, every rpn entry is processed at
\* most once and leaves at most one value
StepBound ==
    /\ Len(tokens) + Len(unread) <= Len(expr)
    /\ Len(stack) + Len(output) <= Len(tokens)
    /\ ip <= Len(output)
    /\ Len(vstack) <= ip

\* C15: every calculate call on a text ends with a number or an error, and
\* the work of each stage is bounded by the length of the text.
C15_Terminates == [](StepBound) /\ ((pc = "tokenize") ~> (pc = "done"))

\* "2+2" evaluated to its end: three tokens, three rpn entries
C15_Witness ==
    /\ pc = "done"
    /\ expr = <<"2", "+", "2">>
    /\ ip = 3
    /\ result = Value(<<4, 1>>)

\* the outcomes of all calls so far, those of the two current calls if ended
Outcomes ==
    seen \cup (IF pc = "done" THEN {<<expr, result>>} ELSE {})
         \cup (IF other.pc = "done" THEN {<<other.expr, other.result>>} ELSE {})

\* C13: in every sequence and interleaving of calls the outcome of a call is
\* a function of its text alone: two calls on the same text have the same
\* outcome, whatever ran, failed or is running in between.
C13_NoCrossCallState ==
    \A a \in Outcomes : \A b \in Outcomes : a[1] = b[1] => a[2] = b[2]

\* "2)" fails twice the same way, the second time after a call on "(2" was
\* started and left in the middle of parsing
C13_Witness ==
    /\ pc = "done"
    /\ expr = <<"2", ")">>
    /\ result = Error("UnmatchedParen")
    /\ <<expr, result>> \in seen
    /\ other.pc = "parse"
    /\ other.expr = <<"(", "2">>
    /\ other.stack = <<Paren>>

====
